---- MODULE Spec2Model ----
(***************************************************************************)
(* A model of read_spectra_v2.py: the ".ISD" spectrum reader.              *)
(*                                                                         *)
(* A Python str is a sequence of characters.  Every character is a TLA+    *)
(* string of one symbol; the field names the script searches for           *)
(* ("Currentsource/SourceCurrent", "NumberOfDataX", "Data") and the        *)
(* wavelength header 'Wavelength (nm)' are single symbols, since the       *)
(* script never looks inside them.  A file (the result of readlines()) is  *)
(* a sequence of lines; every line but possibly the last ends in "\n".     *)
(*                                                                         *)
(* A float is the decimal it was written as, [m, e] standing for           *)
(* m * 10^(-e), normalised, so that "4" and "4.0" are the same number.     *)
(* A DataFrame is [columns, data]: the column labels and the rows.         *)
(* A call that may raise returns a record whose exc field names the        *)
(* exception ("none" when it returns normally).                            *)
(***************************************************************************)
EXTENDS Integers, Sequences, FiniteSets, TLC

VARIABLES
    files,                    \* the paths glob returned, in glob order
    contents,                 \* the lines read from each file opened    (history)
    important_current_values, \* the configured list of currents, or None
    excel_exists,             \* a workbook exists at the destination path
    pc,                       \* where the script is
    fileIdx,                  \* number of files the loop has completed
    opened,                   \* number of files the loop has opened      (history)
    tables,                   \* the df built for each completed file     (history)
    all_spectra_df,
    specified_spectra_df,
    exc,                      \* the exception that ended the run, or "none"
    removed,                  \* number of os.remove calls                (history)
    written,                  \* sheets handed to the spreadsheet writer  (history)
    plotted,                  \* number of plt.plot calls                 (history)
    shown,                    \* plt.show was called                      (history)
    regexp,                   \* find_line: the pattern
    data,                     \* find_line / parse block: the line list
    given,                    \* what the file in data was written from   (history)
    ret                       \* find_line / parse block: the result

vars == <<files, contents, important_current_values, excel_exists, pc, fileIdx, opened, tables,
          all_spectra_df, specified_spectra_df, exc, removed, written, plotted, shown,
          regexp, data, given, ret>>

-----------------------------------------------------------------------------
(* Bounds of the model *)

MaxLines == 3       \* lines of a line list handed to find_line
MaxRows == 2        \* data lines of a generated file
MaxFiles == 3       \* files in the data folder
MaxCols == 7        \* columns of an aligned table handed to the selection
MaxSelRows == 1     \* rows of an aligned table handed to the selection
MaxWanted == 2      \* entries of important_current_values

-----------------------------------------------------------------------------
(* Characters and text *)

SRC == "Currentsource/SourceCurrent"
NUMX == "NumberOfDataX"
DATA == "Data"
WL == "Wavelength (nm)"
NL == "\n"
TAB == "\t"
EQ == "="

DigitChars == <<"0", "1", "2", "3", "4", "5", "6", "7", "8", "9">>

IsDigit(c) == \E d \in 1..10 : DigitChars[d] = c

DigitVal(c) == (CHOOSE d \in 1..10 : DigitChars[d] = c) - 1

IsSpace(c) == c \in {NL, TAB, " "}

\* s[:-1]
DropLast(s) == IF Len(s) = 0 THEN s ELSE SubSeq(s, 1, Len(s) - 1)

\* s.strip(), as int() and float() apply it to their argument
RECURSIVE Strip(_)
Strip(s) ==
    IF Len(s) = 0 THEN s
    ELSE IF IsSpace(s[1]) THEN Strip(Tail(s))
    ELSE IF IsSpace(s[Len(s)]) THEN Strip(DropLast(s))
    ELSE s

\* re.search(pattern, line) for a pattern without metacharacters
re_search(pattern, line) ==
    \E k \in 1..(Len(line) - Len(pattern) + 1) :
        SubSeq(line, k, k + Len(pattern) - 1) = pattern

\* re.split(sep, s) for a one-character separator
RECURSIVE re_split(_, _)
re_split(sep, s) ==
    IF \A k \in 1..Len(s) : s[k] # sep THEN <<s>>
    ELSE LET k == CHOOSE k \in 1..Len(s) :
                      s[k] = sep /\ \A j \in 1..(k - 1) : s[j] # sep
         IN  <<SubSeq(s, 1, k - 1)>> \o re_split(sep, SubSeq(s, k + 1, Len(s)))

RECURSIVE Pow10(_)
Pow10(k) == IF k = 0 THEN 1 ELSE 10 * Pow10(k - 1)

RECURSIVE DigitsValue(_)
DigitsValue(s) == IF Len(s) = 0 THEN 0 ELSE 10 * DigitsValue(DropLast(s)) + DigitVal(s[Len(s)])

AllDigits(s) == \A k \in 1..Len(s) : IsDigit(s[k])

\* the decimal m * 10^(-e), normalised
RECURSIVE Dec(_, _)
Dec(m, e) ==
    IF m = 0 THEN [m |-> 0, e |-> 0]
    ELSE IF e > 0 /\ m % 10 = 0 THEN Dec(m \div 10, e - 1)
    ELSE [m |-> m, e |-> e]

Unsigned(s) == IF Len(s) > 0 /\ s[1] \in {"-", "+"} THEN Tail(s) ELSE s

Sign(s) == IF Len(s) > 0 /\ s[1] = "-" THEN -1 ELSE 1

\* an integer literal, blanks already stripped: optional sign, digits
IntLiteral(t, u) ==
    IF Len(u) > 0 /\ AllDigits(u)
    THEN [exc |-> "none", value |-> Sign(t) * DigitsValue(u)]
    ELSE [exc |-> "ValueError", value |-> 0]

\* int(s): optional blanks, optional sign, digits
Int_(s) == IntLiteral(Strip(s), Unsigned(Strip(s)))

\* the decimal of sign sgn whose integer and fraction digits are ip and fp
DecimalOf(sgn, ip, fp) ==
    IF AllDigits(ip) /\ AllDigits(fp) /\ Len(ip) + Len(fp) > 0
    THEN [exc |-> "none",
          value |-> Dec(sgn * (DigitsValue(ip) * Pow10(Len(fp)) + DigitsValue(fp)), Len(fp))]
    ELSE [exc |-> "ValueError", value |-> Dec(0, 0)]

\* a float literal of sign sgn, split at its points
FloatLiteral(sgn, parts) ==
    IF Len(parts) = 1 THEN DecimalOf(sgn, parts[1], <<>>)
    ELSE IF Len(parts) = 2 THEN DecimalOf(sgn, parts[1], parts[2])
    ELSE [exc |-> "ValueError", value |-> Dec(0, 0)]

\* float(s) on plain decimals: optional blanks, optional sign, digits with at
\* most one point and at least one digit
Float_(s) == FloatLiteral(Sign(Strip(s)), re_split(".", Unsigned(Strip(s))))

RECURSIVE ToDigits(_)
ToDigits(n) ==
    IF n < 10 THEN <<DigitChars[n + 1]>>
    ELSE ToDigits(n \div 10) \o <<DigitChars[(n % 10) + 1]>>

RECURSIVE ZeroPad(_, _)
ZeroPad(s, width) == IF Len(s) >= width THEN s ELSE ZeroPad(<<"0">> \o s, width)

Abs(n) == IF n < 0 THEN -n ELSE n

\* the float formatted as '{:g}' would: no ".0" on integers
StrFloat_general(val) ==
    (IF val.m < 0 THEN <<"-">> ELSE <<>>)
    \o ToDigits(Abs(val.m) \div Pow10(val.e))
    \o (IF val.e = 0 THEN <<>>
        ELSE <<".">> \o ZeroPad(ToDigits(Abs(val.m) % Pow10(val.e)), val.e))

\* str(val) of a float in [1e-4, 1e16): positional, shortest digits, ".0" on integers
StrFloat(val) ==
    (IF val.m < 0 THEN <<"-">> ELSE <<>>)
    \o ToDigits(Abs(val.m) \div Pow10(val.e)) \o <<".">>
    \o (IF val.e = 0 THEN <<"0">> ELSE ZeroPad(ToDigits(Abs(val.m) % Pow10(val.e)), val.e))

-----------------------------------------------------------------------------
(* find_line and find_value *)

RECURSIVE MatchingIndices(_, _, _)
MatchingIndices(pattern, data_list, i) ==
    IF i >= Len(data_list) THEN <<>>
    ELSE (IF re_search(pattern, data_list[i + 1]) THEN <<i>> ELSE <<>>)
         \o MatchingIndices(pattern, data_list, i + 1)

\* find_line taking the first of several matches instead of failing
FirstIndex(indices) ==
    IF Len(indices) >= 1 THEN [exc |-> "none", index |-> indices[1]]
    ELSE [exc |-> "FieldNotFound", index |-> -1]

find_line_first(pattern, data_list) == FirstIndex(MatchingIndices(pattern, data_list, 0))

\* the if/elif/else of find_line over the matching indices
OnlyIndex(indices) ==
    IF Len(indices) = 1 THEN [exc |-> "none", index |-> indices[1]]
    ELSE IF Len(indices) = 0 THEN [exc |-> "FieldNotFound", index |-> -1]
    ELSE [exc |-> "AmbiguousField", index |-> -1]

\* find_line: the index (from 0) of the only matching line
find_line(pattern, data_list) == OnlyIndex(MatchingIndices(pattern, data_list, 0))

\* name, value = re.split('=', val_line); value[:-1]
ValueOf(parts) ==
    IF Len(parts) # 2 THEN [exc |-> "MalformedField", value |-> <<>>]
    ELSE [exc |-> "none", value |-> DropLast(parts[2])]

\* the value on the line find_line found
ValueAt(found, data_list) ==
    IF found.exc # "none" THEN [exc |-> found.exc, value |-> <<>>]
    ELSE ValueOf(re_split(EQ, data_list[found.index + 1]))

\* find_value: the text after '=' on the only matching line, less its last character
find_value(pattern, data_list) == ValueAt(find_line(pattern, data_list), data_list)

-----------------------------------------------------------------------------
(* DataFrames *)

MA == <<" ", "m", "A">>

\* pd.DataFrame()
EmptyFrame == [columns |-> <<>>, data |-> <<>>]

HasCol(df, name) == \E k \in 1..Len(df.columns) : df.columns[k] = name

ColIndex(df, name) == CHOOSE k \in 1..Len(df.columns) : df.columns[k] = name

\* the values of one row under the named columns
Project(df, row, names) == [k \in 1..Len(names) |-> row[ColIndex(df, names[k])]]

\* the columns at the given positions (from 1), for every row
TakeCols(df, positions) ==
    [columns |-> [k \in 1..Len(positions) |-> df.columns[positions[k]]],
     data |-> [r \in 1..Len(df.data) |->
                  [k \in 1..Len(positions) |-> df.data[r][positions[k]]]]]

\* the rows of right that agree with lrow on the shared columns
Hits(left, right, common, lrow) ==
    SelectSeq(right.data,
              LAMBDA rrow : Project(left, lrow, common) = Project(right, rrow, common))

\* lrow joined with each of the rows of right it matches
Joined(right, rightOnly, lrow, hits) ==
    [k \in 1..Len(hits) |-> lrow \o Project(right, hits[k], rightOnly)]

RECURSIVE MergeRows(_, _, _, _, _)
MergeRows(left, right, common, rightOnly, i) ==
    IF i > Len(left.data) THEN <<>>
    ELSE Joined(right, rightOnly, left.data[i], Hits(left, right, common, left.data[i]))
         \o MergeRows(left, right, common, rightOnly, i + 1)

\* the inner join of left and right on the columns common
JoinOn(left, right, common, rightOnly) ==
    IF Len(common) = 0 THEN [exc |-> "MergeError", df |-> EmptyFrame]
    ELSE [exc |-> "none",
          df |-> [columns |-> left.columns \o rightOnly,
                  data |-> MergeRows(left, right, common, rightOnly, 1)]]

\* pd.merge(left, right): inner join on the columns the two frames share; the rows
\* in the order of the left frame, the matches of one left row in the order of the
\* right frame
pd_merge(left, right) ==
    JoinOn(left, right,
           SelectSeq(left.columns, LAMBDA c : HasCol(right, c)),
           SelectSeq(right.columns, LAMBDA c : ~HasCol(left, c)))

-----------------------------------------------------------------------------
(* The per-file block of the loop *)

Min(a, b) == IF a < b THEN a ELSE b

Max(a, b) == IF a > b THEN a ELSE b

\* list[start:stop]
PySlice(list, start, stop) ==
    LET norm(i) == IF i < 0 THEN Max(0, Len(list) + i) ELSE Min(i, Len(list))
    IN  SubSeq(list, norm(start) + 1, norm(stop))

\* the loop over spectrum_data: x, y = re.split('\t', line); float(x), float(y[:-1])
\* wl_p.append([float(x), float(y[:-1])])
Sample(x, y) ==
    IF x.exc # "none" \/ y.exc # "none" THEN [exc |-> "MalformedSample", row |-> <<>>]
    ELSE [exc |-> "none", row |-> <<x.value, y.value>>]

\* x, y = re.split('\t', line)
SampleOf(parts) ==
    IF Len(parts) # 2 THEN [exc |-> "MalformedSample", row |-> <<>>]
    ELSE Sample(Float_(parts[1]), Float_(DropLast(parts[2])))

\* the rows so far, with the next sample and the rest of the loop
Samples(first, rest) ==
    IF first.exc # "none" THEN [exc |-> first.exc, rows |-> <<>>]
    ELSE IF rest.exc # "none" THEN rest
    ELSE [exc |-> "none", rows |-> <<first.row>> \o rest.rows]

RECURSIVE ParseSamples(_)
ParseSamples(spectrum_data) ==
    IF Len(spectrum_data) = 0 THEN [exc |-> "none", rows |-> <<>>]
    ELSE Samples(SampleOf(re_split(TAB, Head(spectrum_data))),
                 ParseSamples(Tail(spectrum_data)))

\* data[idx + 1:idx + num_lines + 1]
SpectrumData(lines, idx, num_lines) == PySlice(lines, idx + 1, idx + num_lines + 1)

NoTable(e) == [exc |-> e, df |-> EmptyFrame]

\* df = pd.DataFrame(columns=['Wavelength (nm)', source_I + ' mA'], data=wl_p)
Table(source_I, wl_p) ==
    IF wl_p.exc # "none" THEN NoTable(wl_p.exc)
    ELSE [exc |-> "none",
          df |-> [columns |-> <<<<WL>>, source_I \o MA>>, data |-> wl_p.rows]]

\* the slice and the loop over it, once num_lines = int(...) is known
Counted(source_I, idx, num_lines, lines) ==
    IF num_lines.exc # "none" THEN NoTable("MalformedField")
    ELSE Table(source_I, ParseSamples(SpectrumData(lines, idx, num_lines.value)))

\* the three searches in the order the script makes them
Fields(source_I, idx, num, lines) ==
    IF source_I.exc # "none" THEN NoTable(source_I.exc)
    ELSE IF idx.exc # "none" THEN NoTable(idx.exc)
    ELSE IF num.exc # "none" THEN NoTable(num.exc)
    ELSE Counted(source_I.value, idx.index, Int_(num.value), lines)

\* from find_value(Currentsource/SourceCurrent) to df = pd.DataFrame(...)
ParseFile(lines) ==
    Fields(find_value(<<SRC>>, lines), find_line(<<DATA, NL>>, lines),
           find_value(<<NUMX>>, lines), lines)

\* if len(all_spectra_df) == 0: all_spectra_df = df
Seed(all, df) == IF Len(all.data) = 0 THEN df ELSE all

\* the seeding and the merge that follows it
MergeStep(all, df) == pd_merge(Seed(all, df), df)

\* the accumulated table after the merge
Merged(all, df, merged) ==
    IF merged.exc # "none" THEN [exc |-> merged.exc, all |-> all, df |-> df]
    ELSE [exc |-> "none", all |-> merged.df, df |-> df]

\* the rest of the iteration once the file is parsed
Accumulate(all, parsed) ==
    IF parsed.exc # "none" THEN [exc |-> parsed.exc, all |-> all, df |-> EmptyFrame]
    ELSE Merged(all, parsed.df, MergeStep(all, parsed.df))

\* one iteration of the loop over files, on the lines read from the file
LoopBody(all, lines) == Accumulate(all, ParseFile(lines))

-----------------------------------------------------------------------------
(* The selection of the chosen spectra *)

\* round(c / 2): halves go to the even neighbour
PyRoundHalf(c) ==
    IF c % 2 = 0 THEN c \div 2
    ELSE IF (c \div 2) % 2 = 0 THEN c \div 2
    ELSE (c \div 2) + 1

\* the middle column taken as floor(c / 2)
default_cols_floor(c) == <<0, 2, c \div 2, c - 1>>

default_cols(c) == <<0, 2, PyRoundHalf(c), c - 1>>

\* df.iloc[:, positions]: positions from 0, negative ones from the end
iloc(df, positions) ==
    IF \E k \in 1..Len(positions) :
           positions[k] < -Len(df.columns) \/ positions[k] >= Len(df.columns)
    THEN [exc |-> "IndexError", df |-> EmptyFrame]
    ELSE [exc |-> "none",
          df |-> TakeCols(df, [k \in 1..Len(positions) |->
                                  IF positions[k] < 0
                                  THEN Len(df.columns) + positions[k] + 1
                                  ELSE positions[k] + 1])]

\* df.loc[:, names]
loc(df, names) ==
    IF \E k \in 1..Len(names) : ~HasCol(df, names[k])
    THEN [exc |-> "ColumnNotFound", df |-> EmptyFrame]
    ELSE [exc |-> "none",
          df |-> TakeCols(df, [k \in 1..Len(names) |-> ColIndex(df, names[k])])]

\* cols = [str(val) + ' mA' for val in important_current_values]; cols.insert(0, ...)
NamedCols(values) == <<<<WL>>>> \o [k \in 1..Len(values) |-> StrFloat(values[k]) \o MA]

\* the if/else that builds specified_spectra_df
Select(all, wanted) ==
    IF wanted.isNone \/ Len(wanted.values) = 0
    THEN iloc(all, default_cols(Len(all.columns)))
    ELSE loc(all, NamedCols(wanted.values))

-----------------------------------------------------------------------------
(* The ".ISD" text the script reads *)

SeqsUpTo(S, n) == UNION {[1..k -> S] : k \in 0..n}

SrcLine(text) == <<SRC, EQ>> \o text \o <<NL>>

NumLine(text) == <<NUMX, EQ>> \o text \o <<NL>>

DataMarker == <<DATA, NL>>

SampleLine(xtext, ytext) == xtext \o <<TAB>> \o ytext \o <<NL>>

\* the three patterns the script searches for
Patterns == {<<SRC>>, <<DATA, NL>>, <<NUMX>>}

Pending == [exc |-> "pending"]

NoList == [isNone |-> TRUE, values |-> <<>>]

scriptVars == <<files, contents, important_current_values, excel_exists, fileIdx, opened, tables,
                all_spectra_df, specified_spectra_df, exc, removed, written, plotted, shown>>

ScriptIdle ==
    /\ files = <<>>
    /\ contents = <<>>
    /\ important_current_values = NoList
    /\ excel_exists = FALSE
    /\ fileIdx = 0
    /\ opened = 0
    /\ tables = <<>>
    /\ all_spectra_df = EmptyFrame
    /\ specified_spectra_df = EmptyFrame
    /\ exc = "none"
    /\ removed = 0
    /\ written = 0
    /\ plotted = 0
    /\ shown = FALSE

-----------------------------------------------------------------------------
(* find_line on its own: any line list, any of the patterns *)

LocLines ==
    { SrcLine(<<"0", ".", "1">>),
      NumLine(<<"1">>),
      DataMarker,
      SampleLine(<<"4">>, <<"1">>),
      <<SRC, EQ, DATA, NL>> }

InitLocate ==
    /\ ScriptIdle
    /\ pc = "call"
    /\ data \in SeqsUpTo(LocLines, MaxLines)
    /\ regexp \in Patterns
    /\ given = data
    /\ ret = Pending

FindLineCall ==
    /\ pc = "call"
    /\ ret' = find_line(regexp, data)
    /\ pc' = "returned"
    /\ UNCHANGED <<scriptVars, regexp, data, given>>

NextLocate == FindLineCall

SpecLocate == InitLocate /\ [][NextLocate]_vars

\* the positions (from 1) of the lines of data that regexp matches
Matches == {k \in 1..Len(data) : re_search(regexp, data[k])}

-----------------------------------------------------------------------------
(* The per-file block on its own: files written from a description *)

\* source-current texts
LabelTexts == { <<"0", ".", "1">>, <<"1">> }

\* the text of a line of the data block (less its newline); for a well-formed
\* line, the wavelength and the power it states
BodyLines ==
    { [t |-> <<"4", TAB, "1">>, ok |-> TRUE,
       x |-> [m |-> 4, e |-> 0], y |-> [m |-> 1, e |-> 0]],
      [t |-> <<"5", TAB, "1", "2">>, ok |-> TRUE,
       x |-> [m |-> 5, e |-> 0], y |-> [m |-> 12, e |-> 0]],
      [t |-> <<"4", ".", "0", TAB, "0", ".", "5">>, ok |-> TRUE,
       x |-> [m |-> 4, e |-> 0], y |-> [m |-> 5, e |-> 1]],
      [t |-> <<"4", TAB, "1", TAB, "2">>, ok |-> FALSE,
       x |-> [m |-> 0, e |-> 0], y |-> [m |-> 0, e |-> 0]],
      [t |-> <<"x", TAB, "1">>, ok |-> FALSE,
       x |-> [m |-> 0, e |-> 0], y |-> [m |-> 0, e |-> 0]] }

\* the declared NumberOfDataX: its text and the number it states
Declared == { [t |-> (IF n < 0 THEN <<"-">> ELSE <<>>) \o ToDigits(Abs(n)), v |-> n] :
                n \in -1..(MaxRows + 1) }

HeaderForms ==
    {"none", "noSrc", "dupSrc", "twoEq", "noNum", "badNum", "noMarker", "dupMarker"}

FileDescriptions ==
    [label : LabelTexts, declared : Declared, lines : SeqsUpTo(BodyLines, MaxRows),
     header : HeaderForms, finalNewline : BOOLEAN]

\* the lines readlines() returns for the file written from description d
FileText(d) ==
    LET src == CASE d.header = "noSrc" -> <<>>
                 [] d.header = "dupSrc" -> <<SrcLine(d.label), SrcLine(d.label)>>
                 [] d.header = "twoEq" -> <<<<SRC, EQ>> \o d.label \o <<EQ, "1", NL>>>>
                 [] OTHER -> <<SrcLine(d.label)>>
        num == CASE d.header = "noNum" -> <<>>
                 [] d.header = "badNum" -> <<NumLine(<<"x">>)>>
                 [] OTHER -> <<NumLine(d.declared.t)>>
        mark == CASE d.header = "noMarker" -> <<>>
                  [] d.header = "dupMarker" -> <<DataMarker, DataMarker>>
                  [] OTHER -> <<DataMarker>>
        body == [k \in 1..Len(d.lines) |-> d.lines[k].t \o <<NL>>]
        all == src \o num \o mark \o body
    IN  IF d.finalNewline \/ Len(all) = 0 THEN all
        ELSE [all EXCEPT ![Len(all)] = DropLast(all[Len(all)])]

InitParse ==
    /\ ScriptIdle
    /\ pc = "call"
    /\ given \in FileDescriptions
    /\ data = FileText(given)
    /\ regexp = <<>>
    /\ ret = Pending

ParseCall ==
    /\ pc = "call"
    /\ ret' = ParseFile(data)
    /\ pc' = "returned"
    /\ UNCHANGED <<scriptVars, regexp, data, given>>

NextParse == ParseCall

SpecParse == InitParse /\ [][NextParse]_vars

\* the file has the three header lines once each, declares N >= 0 and holds at
\* least N data lines, the first N of them well formed
ValidFile(d) ==
    /\ d.header = "none"
    /\ d.declared.v >= 0
    /\ d.declared.v <= Len(d.lines)
    /\ \A k \in 1..d.declared.v : d.lines[k].ok

\* the table the claim expects of a valid file
ExpectedTable(d) ==
    [columns |-> <<<<WL>>, d.label \o MA>>,
     data |-> [k \in 1..d.declared.v |-> <<d.lines[k].x, d.lines[k].y>>]]

\* C3: a file with a valid header that declares N samples and holds at least N
\* well-formed data lines parses to a table of exactly N rows, the first N data
\* lines in file order, under the columns Wavelength and '<source current> mA'.
C3_ParseRows ==
    (pc = "returned" /\ ValidFile(given)) =>
        /\ ret.exc = "none"
        /\ ret.df = ExpectedTable(given)

\* The same, for the files in which every line the block reads ends in a newline.
ParseRowsNewlineTerminated ==
    (/\ pc = "returned"
     /\ ValidFile(given)
     /\ given.finalNewline \/ given.declared.v < Len(given.lines)) =>
        /\ ret.exc = "none"
        /\ ret.df = ExpectedTable(given)

\* C5: a file that declares N samples and holds fewer than N data lines fails
\* with TruncatedSpectrum; no table of fewer than N rows is returned.
C5_Truncated ==
    (/\ pc = "returned"
     /\ given.header = "none"
     /\ given.finalNewline
     /\ given.declared.v > Len(given.lines)
     /\ \A k \in 1..Len(given.lines) : given.lines[k].ok) =>
        /\ ret.exc = "TruncatedSpectrum"
        /\ ~(ret.exc = "none" /\ Len(ret.df.data) < given.declared.v)

\* What the block does with such a file: the table of the lines that are there.
TruncatedFileYieldsShortTable ==
    (/\ pc = "returned"
     /\ given.header = "none"
     /\ given.finalNewline
     /\ given.declared.v > Len(given.lines)
     /\ \A k \in 1..Len(given.lines) : given.lines[k].ok) =>
        /\ ret.exc = "none"
        /\ Len(ret.df.data) = Len(given.lines)

-----------------------------------------------------------------------------
(* The loop over the files *)

\* one iteration that logs a file it cannot read and goes on to the next
ProcessFileSkipBad(Folder) ==
    /\ pc = "loop"
    /\ fileIdx < Len(files)
    /\ \E lines \in Folder :
         LET r == LoopBody(all_spectra_df, lines)
         IN  /\ opened' = opened + 1
             /\ contents' = Append(contents, lines)
             /\ fileIdx' = fileIdx + 1
             /\ pc' = pc
             /\ IF r.exc = "none"
                THEN /\ all_spectra_df' = r.all
                     /\ tables' = Append(tables, r.df)
                     /\ exc' = exc
                ELSE /\ exc' = r.exc
                     /\ UNCHANGED <<all_spectra_df, tables>>
    /\ UNCHANGED <<files, important_current_values, excel_exists, specified_spectra_df,
                   removed, written, plotted, shown, regexp, data, given, ret>>

\* one iteration: open the next file (whatever the folder holds at that path),
\* build its df, seed and merge; an exception ends the script
ProcessFile(Folder) ==
    /\ pc = "loop"
    /\ fileIdx < Len(files)
    /\ \E lines \in Folder :
         LET r == LoopBody(all_spectra_df, lines)
         IN  /\ opened' = opened + 1
             /\ contents' = Append(contents, lines)
             /\ IF r.exc = "none"
                THEN /\ all_spectra_df' = r.all
                     /\ tables' = Append(tables, r.df)
                     /\ fileIdx' = fileIdx + 1
                     /\ UNCHANGED <<pc, exc>>
                ELSE /\ exc' = r.exc
                     /\ pc' = "aborted"
                     /\ UNCHANGED <<all_spectra_df, tables, fileIdx>>
    /\ UNCHANGED <<files, important_current_values, excel_exists, specified_spectra_df,
                   removed, written, plotted, shown, regexp, data, given, ret>>

AlignLabels == << <<"0", ".", "1">>, <<"0", ".", "5">>, <<"1">> >>

Wavelengths == {"4", "5"}

\* the description of a sound file: source current AlignLabels[l], a sample of
\* power l at each wavelength of ws, every line ending in a newline
Sound(l, ws) ==
    [label |-> AlignLabels[l],
     declared |-> [t |-> ToDigits(Len(ws)), v |-> Len(ws)],
     lines |-> [k \in 1..Len(ws) |->
                   [t |-> <<ws[k], TAB, DigitChars[l + 1]>>, ok |-> TRUE,
                    x |-> [m |-> DigitVal(ws[k]), e |-> 0],
                    y |-> [m |-> l, e |-> 0]]],
     header |-> "none",
     finalNewline |-> TRUE]

AlignFile(l, ws) == FileText(Sound(l, ws))

AlignFiles ==
    {AlignFile(l, ws) : l \in 1..Len(AlignLabels), ws \in SeqsUpTo(Wavelengths, MaxRows)}

\* glob: the paths of the folder's files, here their numbers
GlobResults == {[k \in 1..n |-> k] : n \in 0..MaxFiles}

InitAlign ==
    /\ files \in GlobResults
    /\ contents = <<>>
    /\ important_current_values = NoList
    /\ excel_exists = FALSE
    /\ pc = "loop"
    /\ fileIdx = 0
    /\ opened = 0
    /\ tables = <<>>
    /\ all_spectra_df = EmptyFrame
    /\ specified_spectra_df = EmptyFrame
    /\ exc = "none"
    /\ removed = 0
    /\ written = 0
    /\ plotted = 0
    /\ shown = FALSE
    /\ regexp = <<>>
    /\ data = <<>>
    /\ given = <<>>
    /\ ret = Pending

NextAlign == ProcessFile(AlignFiles)

SpecAlign == InitAlign /\ [][NextAlign]_vars

\* the loop has run over every file
LoopDone == pc = "loop" /\ fileIdx = Len(files)

\* the wavelengths of the rows of a table
WlSet(df) ==
    IF HasCol(df, <<WL>>) THEN {df.data[r][ColIndex(df, <<WL>>)] : r \in 1..Len(df.data)}
    ELSE {}

\* the data-column label of a one-spectrum table
LabelOf(df) == df.columns[2]

DistinctLabels(ts) ==
    \A i, j \in 1..Len(ts) : i # j => LabelOf(ts[i]) # LabelOf(ts[j])

\* the loop's seeding and merging over a sequence of tables
RECURSIVE AlignFrom(_, _)
AlignFrom(all, ts) ==
    IF Len(ts) = 0 THEN all ELSE AlignFrom(MergeStep(all, Head(ts)).df, Tail(ts))

Align(ts) == AlignFrom(EmptyFrame, ts)

Reorderings(n) == {f \in [1..n -> 1..n] : \A i, j \in 1..n : i # j => f[i] # f[j]}

\* every join of the run left at least one row
RECURSIVE JoinsNonEmpty(_)
JoinsNonEmpty(ts) ==
    \/ Len(ts) = 0
    \/ /\ Len(Align(ts).data) > 0
       /\ JoinsNonEmpty(DropLast(ts))

\* C1: the wavelengths of the aligned table are those every file's table holds.
C1_Intersection ==
    (LoopDone /\ Len(files) >= 1) =>
        WlSet(all_spectra_df) = {w \in WlSet(tables[1]) :
                                    \A k \in 1..Len(tables) : w \in WlSet(tables[k])}

\* The same, for the runs none of whose joins came out empty.
IntersectionWhileRowsRemain ==
    (LoopDone /\ Len(files) >= 1 /\ JoinsNonEmpty(tables)) =>
        WlSet(all_spectra_df) = {w \in WlSet(tables[1]) :
                                    \A k \in 1..Len(tables) : w \in WlSet(tables[k])}

\* C2: with pairwise distinct labels, the aligned table has the Wavelength
\* column and then one data column per file, in file order, however many rows
\* survive.
C2_Columns ==
    (LoopDone /\ Len(files) >= 1 /\ DistinctLabels(tables)) =>
        all_spectra_df.columns = <<<<WL>>>> \o [k \in 1..Len(tables) |-> LabelOf(tables[k])]

\* The same, for the runs none of whose joins came out empty.
ColumnsWhileRowsRemain ==
    (LoopDone /\ Len(files) >= 1 /\ DistinctLabels(tables) /\ JoinsNonEmpty(tables)) =>
        all_spectra_df.columns = <<<<WL>>>> \o [k \in 1..Len(tables) |-> LabelOf(tables[k])]

\* C7: with distinct labels, the loop over any reordering of the tables ends
\* with the same set of wavelengths.
C7_OrderIndependent ==
    (LoopDone /\ Len(files) >= 1 /\ DistinctLabels(tables)) =>
        \A f \in Reorderings(Len(tables)) :
            WlSet(Align([k \in 1..Len(tables) |-> tables[f[k]]])) = WlSet(all_spectra_df)

\* C8: the loop over one file ends with that file's table, unchanged.
C8_Identity ==
    (LoopDone /\ Len(files) = 1) => all_spectra_df = tables[1]

\* The same, for a table whose rows are pairwise distinct.
IdentityOnDistinctRows ==
    (/\ LoopDone
     /\ Len(files) = 1
     /\ \A i, j \in 1..Len(tables[1].data) :
            i # j => tables[1].data[i] # tables[1].data[j]) =>
        all_spectra_df = tables[1]

-----------------------------------------------------------------------------
(* The selection on its own: any aligned table, any list of currents *)

\* source-current labels as files state them
SelLabels ==
    << <<"0", ".", "1">>, <<"1">>, <<"0", ".", "5">>, <<"1", ".", "0">>,
       <<"0", ".", "5", "0">>, <<"2", ".", "0">>, <<"0", ".", "2", "5">>,
       <<"0", ".", "0", "1">> >>

\* an aligned table of c columns and r rows: Wavelength, then the first c - 1
\* labels, forwards or backwards
SelTable(c, r, backwards) ==
    IF c = 0 THEN EmptyFrame
    ELSE [columns |-> <<<<WL>>>> \o
                      [k \in 1..(c - 1) |->
                          SelLabels[IF backwards THEN c - k ELSE k] \o MA],
          data |-> [i \in 1..r |-> [k \in 1..c |-> [m |-> 10 * i + k, e |-> 0]]]]

\* a table has no columns at all (no file) or Wavelength and a column per file
SelTables ==
    {SelTable(c, r, b) : c \in {0} \cup 2..MaxCols, r \in 0..MaxSelRows, b \in BOOLEAN}

\* the currents a caller may ask for, each with the text of its label
WantedValues ==
    { [m |-> 1, e |-> 1], [m |-> 5, e |-> 1], [m |-> 1, e |-> 0] }

WantedText(v) ==
    CASE v = [m |-> 1, e |-> 1] -> <<"0", ".", "1">>
      [] v = [m |-> 5, e |-> 1] -> <<"0", ".", "5">>
      [] v = [m |-> 1, e |-> 0] -> <<"1", ".", "0">>

WantedLists ==
    {NoList} \cup {[isNone |-> FALSE, values |-> vs] : vs \in SeqsUpTo(WantedValues, MaxWanted)}

InitSelect ==
    /\ files = <<>>
    /\ contents = <<>>
    /\ important_current_values \in WantedLists
    /\ excel_exists = FALSE
    /\ pc = "call"
    /\ fileIdx = 0
    /\ opened = 0
    /\ tables = <<>>
    /\ all_spectra_df \in SelTables
    /\ specified_spectra_df = EmptyFrame
    /\ exc = "none"
    /\ removed = 0
    /\ written = 0
    /\ plotted = 0
    /\ shown = FALSE
    /\ regexp = <<>>
    /\ data = <<>>
    /\ given = <<>>
    /\ ret = Pending

SelectCall ==
    /\ pc = "call"
    /\ LET r == Select(all_spectra_df, important_current_values)
       IN  /\ specified_spectra_df' = r.df
           /\ exc' = r.exc
    /\ pc' = "returned"
    /\ UNCHANGED <<files, contents, important_current_values, excel_exists, fileIdx, opened, tables,
                   all_spectra_df, removed, written, plotted, shown, regexp, data, given,
                   ret>>

NextSelect == SelectCall

SpecSelect == InitSelect /\ [][NextSelect]_vars

NoneWanted == important_current_values.isNone \/ Len(important_current_values.values) = 0

NumCols == Len(all_spectra_df.columns)

\* the members of a set of naturals in ascending order
RECURSIVE Ascending(_)
Ascending(S) ==
    IF S = {} THEN <<>>
    ELSE LET lo == CHOOSE x \in S : \A y \in S : x <= y
         IN  <<lo>> \o Ascending(S \ {lo})

\* C6 as stated: with no currents given, the columns at indices
\* {0, 2, floor(C/2), C-1}, each once, in ascending order (0, 2, 3, 6 for C = 7).
C6_DefaultFloorDedup ==
    (pc = "returned" /\ NoneWanted /\ NumCols >= 3) =>
        /\ exc = "none"
        /\ specified_spectra_df =
               TakeCols(all_spectra_df,
                        [k \in 1..Cardinality({0, 2, NumCols \div 2, NumCols - 1}) |->
                            Ascending({0, 2, NumCols \div 2, NumCols - 1})[k] + 1])

\* round(C/2) with halves to the even neighbour
HalfToEven(c) == IF c % 4 = 3 THEN (c + 1) \div 2 ELSE c \div 2

\* C6 as amended: with no currents given and C >= 3 columns, the columns at
\* indices 0, 2, round(C/2), C-1 in that order, halves rounded to the even
\* neighbour and a colliding index repeated (0, 2, 4, 6 for C = 7); with fewer
\* than 3 columns the selection fails.
C6_DefaultRoundNoDedup ==
    (pc = "returned" /\ NoneWanted) =>
        /\ NumCols >= 3 =>
               /\ exc = "none"
               /\ specified_spectra_df =
                      TakeCols(all_spectra_df, <<1, 3, HalfToEven(NumCols) + 1, NumCols>>)
        /\ NumCols = 7 =>
               specified_spectra_df.columns =
                   <<all_spectra_df.columns[1], all_spectra_df.columns[3],
                     all_spectra_df.columns[5], all_spectra_df.columns[7]>>
        /\ NumCols < 3 => exc = "IndexError"

C6_Witness ==
    /\ pc = "returned"
    /\ NoneWanted
    /\ NumCols = 7
    /\ Len(all_spectra_df.data) >= 1
    /\ exc = "none"
    /\ Len(specified_spectra_df.columns) = 4

\* the labels of the currents asked for
WantedLabels ==
    [k \in 1..Len(important_current_values.values) |->
        WantedText(important_current_values.values[k]) \o MA]

\* C9: when currents are given and each one's '<value> mA' label is a column of
\* the aligned table, the selection is the Wavelength column followed by the
\* columns asked for, in the order asked, every value as in the aligned table,
\* and nothing else.
C9_NamedSelection ==
    (/\ pc = "returned"
     /\ ~NoneWanted
     /\ \A k \in 1..Len(WantedLabels) : HasCol(all_spectra_df, WantedLabels[k])) =>
        /\ exc = "none"
        /\ specified_spectra_df.columns = <<<<WL>>>> \o WantedLabels
        /\ Len(specified_spectra_df.data) = Len(all_spectra_df.data)
        /\ \A r \in 1..Len(all_spectra_df.data) :
               \A k \in 1..Len(specified_spectra_df.columns) :
                   specified_spectra_df.data[r][k] =
                       all_spectra_df.data[r][ColIndex(all_spectra_df,
                                                       specified_spectra_df.columns[k])]

C9_Witness ==
    /\ pc = "returned"
    /\ important_current_values.values = <<[m |-> 1, e |-> 0], [m |-> 1, e |-> 1]>>
    /\ NumCols > 5
    /\ Len(all_spectra_df.data) >= 1
    /\ exc = "none"
    /\ Len(specified_spectra_df.columns) = 3

-----------------------------------------------------------------------------
(* The script from top to bottom *)

\* the inputs section: important_current_values_scientific iterates over the list
Startup ==
    /\ pc = "start"
    /\ IF important_current_values.isNone
       THEN exc' = "TypeError" /\ pc' = "aborted"
       ELSE exc' = exc /\ pc' = "loop"
    /\ UNCHANGED <<files, contents, important_current_values, excel_exists, fileIdx, opened, tables,
                   all_spectra_df, specified_spectra_df, removed, written, plotted, shown,
                   regexp, data, given, ret>>

\* after the loop: the if/else that builds specified_spectra_df
SelectSubset ==
    /\ pc = "loop"
    /\ fileIdx = Len(files)
    /\ LET r == Select(all_spectra_df, important_current_values)
       IN  IF r.exc = "none"
           THEN /\ specified_spectra_df' = r.df
                /\ pc' = "write"
                /\ exc' = exc
           ELSE /\ exc' = r.exc
                /\ pc' = "aborted"
                /\ UNCHANGED specified_spectra_df
    /\ UNCHANGED <<files, contents, important_current_values, excel_exists, fileIdx, opened, tables,
                   all_spectra_df, removed, written, plotted, shown, regexp, data, given,
                   ret>>

\* delete the workbook if there is one, then hand both sheets to the writer
WriteWorkbook ==
    /\ pc = "write"
    /\ removed' = IF excel_exists THEN removed + 1 ELSE removed
    /\ written' = written + 2
    /\ excel_exists' = TRUE
    /\ pc' = "plot"
    /\ UNCHANGED <<files, contents, important_current_values, fileIdx, opened, tables,
                   all_spectra_df, specified_spectra_df, exc, plotted, shown, regexp, data,
                   given, ret>>

\* the plot: cols exists only when currents were given
RenderPlot ==
    /\ pc = "plot"
    /\ IF Len(important_current_values.values) = 0
       THEN /\ exc' = "NameError"
            /\ pc' = "aborted"
            /\ UNCHANGED <<plotted, shown>>
       ELSE /\ plotted' = plotted + Len(important_current_values.values)
            /\ shown' = TRUE
            /\ pc' = "done"
            /\ exc' = exc
    /\ UNCHANGED <<files, contents, important_current_values, excel_exists, fileIdx, opened, tables,
                   all_spectra_df, specified_spectra_df, removed, written, regexp, data,
                   given, ret>>

ThreeFields ==
    [t |-> <<"4", TAB, "1", TAB, "2">>, ok |-> FALSE,
     x |-> [m |-> 0, e |-> 0], y |-> [m |-> 0, e |-> 0]]

\* two sound files, and four that differ from a sound one in one respect
ScriptFiles ==
    { FileText(Sound(1, <<"4", "5">>)),
      FileText(Sound(2, <<"4">>)),
      FileText([Sound(1, <<"4">>) EXCEPT !.header = "noSrc"]),
      FileText([Sound(1, <<"4">>) EXCEPT !.header = "dupMarker"]),
      FileText([Sound(1, <<"4">>) EXCEPT !.header = "twoEq"]),
      FileText([Sound(1, <<"4">>) EXCEPT !.lines = <<ThreeFields>>]) }

ScriptWanted ==
    { NoList,
      [isNone |-> FALSE, values |-> <<>>],
      [isNone |-> FALSE, values |-> <<[m |-> 1, e |-> 1]>>],
      [isNone |-> FALSE, values |-> <<[m |-> 5, e |-> 1], [m |-> 1, e |-> 1]>>],
      [isNone |-> FALSE, values |-> <<[m |-> 1, e |-> 0]>>] }

Init ==
    /\ files \in GlobResults
    /\ contents = <<>>
    /\ important_current_values \in ScriptWanted
    /\ excel_exists \in BOOLEAN
    /\ pc = "start"
    /\ fileIdx = 0
    /\ opened = 0
    /\ tables = <<>>
    /\ all_spectra_df = EmptyFrame
    /\ specified_spectra_df = EmptyFrame
    /\ exc = "none"
    /\ removed = 0
    /\ written = 0
    /\ plotted = 0
    /\ shown = FALSE
    /\ regexp = <<>>
    /\ data = <<>>
    /\ given = <<>>
    /\ ret = Pending

Next ==
    \/ Startup
    \/ ProcessFile(ScriptFiles)
    \/ SelectSubset
    \/ WriteWorkbook
    \/ RenderPlot

Spec == Init /\ [][Next]_vars

ParseErrors == {"FieldNotFound", "AmbiguousField", "MalformedField", "MalformedSample"}

SelectErrors == {"ColumnNotFound", "IndexError"}

\* C10: an error raised while a file is parsed or the subset is selected ends
\* the run there: no later file is opened, nothing is handed to the writer or
\* the plotter, no existing workbook is deleted; and the workbook is written
\* only once every file is parsed and merged and the subset selected.
C10_AbortIsTotal ==
    /\ exc \in ParseErrors \cup SelectErrors =>
           /\ pc = "aborted"
           /\ written = 0 /\ plotted = 0 /\ ~shown /\ removed = 0
    /\ exc \in ParseErrors => opened = fileIdx + 1 /\ Len(tables) = fileIdx
    /\ exc \in SelectErrors => opened = Len(files) /\ fileIdx = Len(files)
    /\ written > 0 =>
           /\ opened = Len(files)
           /\ fileIdx = Len(files)
           /\ Len(tables) = Len(files)
           /\ exc \notin ParseErrors \cup SelectErrors
           /\ pc \in {"plot", "done", "aborted"}

C10_Witness ==
    /\ pc = "aborted"
    /\ exc = "MalformedSample"
    /\ fileIdx >= 1
    /\ fileIdx + 1 < Len(files)
    /\ excel_exists
    /\ written = 0

====
